---- MODULE Spec2Model ----
(***************************************************************************)
(* Retrieval pipeline of the Arabic document assistant:                    *)
(*   vector_store.py  VectorStore.add_document / VectorStore.search        *)
(*   app.py           start, process_uploaded_file, on_upload_more,        *)
(*                    handle_user_message                                  *)
(*   document_processor.py  process_document, chunk_document,              *)
(*                    fix_arabic_text                                      *)
(*   ollama_service.py      query_document (the labels of its context)     *)
(*                                                                         *)
(* The texts of uploaded documents are modelled by their segmentation: a   *)
(* text is a sequence of page segments, a segment is the sequence of       *)
(* pieces the character splitter cuts from it.  Where the segmentation     *)
(* itself or the normalization is at stake, a text is the sequence of its  *)
(* characters.  An embedding vector is a one-dimensional                   *)
(* integer, so that the squared Euclidean distance of IndexFlatL2 is       *)
(* (q - v)^2.                                                              *)
(***************************************************************************)
EXTENDS Integers, Sequences, FiniteSets, TLC

VARIABLES vector_store, stores, hist, lastSearch, session, tasks, input, output

vars == <<vector_store, stores, hist, lastSearch, session, tasks, input, output>>

\* the argument and the result of a text function called on its own
pure == <<input, output>>

(***************************************************************************)
(* Bounds                                                                  *)
(***************************************************************************)
\* largest k passed to search by a direct caller (the application uses 3)
MaxK == 4
\* files the users of all chats together hand to process_uploaded_file
MaxUploads == 2
\* characters of a text handed to chunk_document on its own
MaxTextLen == 5
\* pages of a text whose pages are longer than a chunk, and the pieces the
\* splitter cuts from one of them
MaxSegments == 3
MaxPieces == 2
\* characters of a text handed to fix_arabic_text
MaxFixLen == 4
\* files the user of a chat hands in when the file limit is at stake
LimitUploads == 6

(***************************************************************************)
(* Inputs                                                                  *)
(***************************************************************************)
Piece(t, l) == [text |-> t, line |-> l]

\* two pages, three pieces
TextA == << <<Piece("a1", 1), Piece("a2", 3)>>, <<Piece("a3", 1)>> >>
\* three segments, the middle one blank
TextB == << <<Piece("b1", 1)>>, << >>, <<Piece("b2", 2)>> >>
\* whitespace only
TextBlank == << << >> >>
\* the sentinel strings process_document returns
TextUnsupported == << <<Piece("unsupported", 1)>> >>
TextProcessingError == << <<Piece("processing_error", 1)>> >>
TextUndecodable == << <<Piece("undecodable", 1)>> >>

Queries == {"q0", "q5"}

\* model.encode: deterministic, one vector per string
encode(s) ==
  CASE s = "a1" -> 0
    [] s = "a2" -> 3
    [] s = "a3" -> 7
    [] s = "b1" -> 1
    [] s = "b2" -> 4
    [] s = "unsupported" -> 9
    [] s = "processing_error" -> 10
    [] s = "undecodable" -> 11
    [] s = "q0" -> 0
    [] s = "q5" -> 5
    [] OTHER -> 20

(***************************************************************************)
(* document_processor.chunk_document                                       *)
(***************************************************************************)
\* chunk ids that start again at 0 on every page
chunk_document_page_ids(text) ==
  LET RECURSIVE Page(_)
      Page(p) ==
        IF p > Len(text) THEN << >>
        ELSE [k \in 1..Len(text[p]) |->
                [id |-> k - 1, text |-> text[p][k].text,
                 metadata |-> [chunk_id |-> k - 1, page |-> p, line |-> text[p][k].line]]]
             \o Page(p + 1)
  IN Page(1)

IsBlank(text) == \A p \in 1..Len(text) : text[p] = << >>

RECURSIVE SumLen(_, _)
SumLen(text, p) == IF p = 0 THEN 0 ELSE SumLen(text, p - 1) + Len(text[p])

\* the page and the position inside the page of the n-th emitted piece
RECURSIVE PageOf(_, _, _)
PageOf(text, n, p) == IF n <= SumLen(text, p) THEN p ELSE PageOf(text, n, p + 1)

chunk_document(text) ==
  IF IsBlank(text) THEN << >>
  ELSE [n \in 1..SumLen(text, Len(text)) |->
          LET page_num == PageOf(text, n, 1)
              piece == text[page_num][n - SumLen(text, page_num - 1)]
          IN [id |-> n - 1,
              text |-> piece.text,
              metadata |-> [chunk_id |-> n - 1, page |-> page_num, line |-> piece.line]]]

(***************************************************************************)
(* chunk_document on the characters of a text.  A text is a sequence of    *)
(* characters: a letter, the space, the newline and the form feed.         *)
(***************************************************************************)
Chars == {"x", " ", "\n", "\f"}

\* whitespace of str.strip and of \s
IsSpace(c) == c \in {" ", "\n", "\f"}

SetMin(S) == CHOOSE x \in S : \A y \in S : x <= y
SetMax(S) == CHOOSE x \in S : \A y \in S : y <= x

\* str.strip
strip(text) ==
  LET inked == {i \in 1..Len(text) : ~IsSpace(text[i])}
  IN IF inked = {} THEN << >> ELSE SubSeq(text, SetMin(inked), SetMax(inked))

\* text.split(sep) for a separator of one character
RECURSIVE split(_, _)
split(text, sep) ==
  LET at == {i \in 1..Len(text) : text[i] = sep}
  IN IF at = {} THEN <<text>>
     ELSE <<SubSeq(text, 1, SetMin(at) - 1)>> \o split(SubSeq(text, SetMin(at) + 1, Len(text)), sep)

\* the ends of the matches of \n\s*\n\s*\n that begin at position p
MatchEnds(text, p) ==
  {e \in (p + 2)..Len(text) :
     /\ text[p] = "\n" /\ text[e] = "\n"
     /\ \A i \in p..e : IsSpace(text[i])
     /\ \E a \in (p + 1)..(e - 1) : text[a] = "\n"}

\* re.split(r'\n\s*\n\s*\n', text): the leftmost match, as long as the
\* greedy \s* can make it, is cut out; the search goes on behind it
RECURSIVE re_split(_)
re_split(text) ==
  LET starts == {p \in 1..Len(text) : MatchEnds(text, p) # {}}
  IN IF starts = {} THEN <<text>>
     ELSE LET p == SetMin(starts)
              e == SetMax(MatchEnds(text, p))
          IN <<SubSeq(text, 1, p - 1)>> \o re_split(SubSeq(text, e + 1, Len(text)))

\* most pages a split may give
PageLimit == 500
\* chunk_size of the splitter
chunk_size == 500

\* the pages of a text.  With a form feed in the text the statement
\* "pages = text.split('\f')," binds a tuple whose one element is the list
\* of the parts.
pages(text) ==
  LET parts == IF \E i \in 1..Len(text) : text[i] = "\f"
                 THEN << split(text, "\f") >>
               ELSE re_split(text)
  IN IF Len(parts) < 2 \/ Len(parts) > PageLimit THEN <<text>> ELSE parts

\* the pieces of a page that is skipped when blank and otherwise fits into
\* one chunk: the splitter merges its splits back and strips the result; the
\* line is one more than the newlines in front of the piece
split_documents(page_text) ==
  CASE Len(page_text) <= chunk_size ->
    IF strip(page_text) = << >> THEN << >>
    ELSE LET start_pos == SetMin({i \in 1..Len(page_text) : ~IsSpace(page_text[i])}) - 1
             line_num == Cardinality({i \in 1..start_pos : page_text[i] = "\n"}) + 1
         IN <<Piece(strip(page_text), line_num)>>

\* the pages of a text and the pieces of each
Segmentation(text) == [j \in 1..Len(pages(text)) |-> split_documents(pages(text)[j])]

\* chunk_document on the characters of a text
chunk_document_text(text) == chunk_document(Segmentation(text))

(***************************************************************************)
(* document_processor.fix_arabic_text.  The characters are the space, the  *)
(* newline and the Arabic letters the function touches or produces, each   *)
(* under its name: alef with hamza above, alef with hamza below, alef      *)
(* with madda, alef maksura, teh marbuta, the lam-alef ligature, and       *)
(* alef, yeh, heh, lam.                                                    *)
(***************************************************************************)
FixChars == {" ", "\n", "alef_hamza_above", "alef_hamza_below", "alef_madda",
             "alef_maksura", "teh_marbuta", "lam_alef", "alef", "yeh", "heh", "lam"}

\* the characters of text at the positions in keep, in order
Pick(text, keep) ==
  [j \in 1..Cardinality(keep) |->
     text[CHOOSE k \in keep : Cardinality({x \in keep : x <= k}) = j]]

\* text.replace('  ', ' '): every pair of spaces, from the left, becomes one
RECURSIVE collapse_space_pairs(_)
collapse_space_pairs(text) ==
  IF text = << >> THEN << >>
  ELSE IF Len(text) >= 2 /\ text[1] = " " /\ text[2] = " "
    THEN <<" ">> \o collapse_space_pairs(SubSeq(text, 3, Len(text)))
  ELSE <<Head(text)>> \o collapse_space_pairs(Tail(text))

\* re.sub(r' +', ' ', text): of a run of spaces the first is kept
collapse_spaces(text) ==
  Pick(text, {i \in 1..Len(text) : text[i] # " " \/ i = 1 \/ text[i - 1] # " "})

\* re.sub(r'\n{3,}', '\n\n', text): of a run of newlines the first two are kept
collapse_newlines(text) ==
  Pick(text, {i \in 1..Len(text) :
                text[i] # "\n" \/ i <= 2 \/ text[i - 1] # "\n" \/ text[i - 2] # "\n"})

\* text.replace of the ligature by lam and alef
RECURSIVE replace_ligature(_)
replace_ligature(text) ==
  IF text = << >> THEN << >>
  ELSE (IF Head(text) = "lam_alef" THEN <<"lam", "alef">> ELSE <<Head(text)>>)
         \o replace_ligature(Tail(text))

\* the replacements dictionary
replacements(c) ==
  CASE c \in {"alef_hamza_above", "alef_hamza_below", "alef_madda"} -> "alef"
    [] c = "alef_maksura" -> "yeh"
    [] c = "teh_marbuta" -> "heh"
    [] OTHER -> c

fix_arabic_text(text) ==
  IF strip(text) = << >> THEN << >>
  ELSE LET spaced == collapse_newlines(collapse_spaces(text))
           joined == replace_ligature(spaced)
       IN [i \in 1..Len(joined) |-> replacements(joined[i])]

(***************************************************************************)
(* vector_store.VectorStore                                                *)
(***************************************************************************)
NoIndex == [present |-> FALSE, vecs |-> << >>]

VectorStore == [index |-> NoIndex, chunks |-> << >>]

Vectors(chunks) == [i \in 1..Len(chunks) |-> encode(chunks[i].text)]

IndexFlatL2(vecs) == [present |-> TRUE, vecs |-> vecs]

\* add_document as an accumulating build: the new passages are appended to the
\* stored ones and the index is rebuilt over all of them
add_document_accumulate(vs, chunks, fault) ==
  LET all == vs.chunks \o chunks
  IN IF Len(chunks) = 0
       THEN [store |-> [vs EXCEPT !.chunks = chunks], ret |-> 0, raised |-> FALSE]
     ELSE IF fault = "encode"
       THEN [store |-> [vs EXCEPT !.chunks = chunks], ret |-> 0, raised |-> TRUE]
     ELSE [store |-> [index |-> IndexFlatL2(Vectors(all)), chunks |-> all],
           ret |-> Len(chunks), raised |-> FALSE]

\* add_document on store vs: the store afterwards, the value returned, and
\* whether the call raised.  fault = "encode" makes model.encode raise.
add_document(vs, chunks, fault) ==
  LET assigned == [vs EXCEPT !.chunks = chunks]
  IN IF Len(chunks) = 0
       THEN [store |-> assigned, ret |-> 0, raised |-> FALSE]
     ELSE IF fault = "encode"
       THEN [store |-> assigned, ret |-> 0, raised |-> TRUE]
     ELSE [store |-> [assigned EXCEPT !.index = IndexFlatL2(Vectors(chunks))],
           ret |-> Len(chunks), raised |-> FALSE]

Dist(q, v) == (q - v) * (q - v)

Min(a, b) == IF a < b THEN a ELSE b

\* faiss IndexFlatL2.search: k (index, distance) pairs, ascending by distance,
\* ties by insertion order, padded with index -1
IndexSearch(vecs, qv, k) ==
  LET n == Len(vecs)
      Before(j, i) == \/ Dist(qv, vecs[j]) < Dist(qv, vecs[i])
                      \/ Dist(qv, vecs[j]) = Dist(qv, vecs[i]) /\ j < i
      At(p) == CHOOSE i \in 1..n : Cardinality({j \in 1..n : Before(j, i)}) = p - 1
  IN [p \in 1..k |->
        IF p <= n THEN [idx |-> At(p) - 1, dist |-> Dist(qv, vecs[At(p)])]
        ELSE [idx |-> -1, dist |-> -1]]

\* search without the idx == -1 test and the range test: a padding index -1
\* reads chunks[-1], the last passage
search_unfiltered(vs, query, k, fault) ==
  IF ~vs.index.present THEN [raised |-> FALSE, results |-> << >>]
  ELSE IF Len(vs.chunks) = 0 THEN [raised |-> FALSE, results |-> << >>]
  ELSE IF fault # "none" THEN [raised |-> FALSE, results |-> << >>]
  ELSE LET found == IndexSearch(vs.index.vecs, encode(query), k)
           At(h) == IF h.idx = -1 THEN Len(vs.chunks) ELSE Min(h.idx + 1, Len(vs.chunks))
       IN [raised |-> FALSE,
           results |-> [i \in 1..Len(found) |->
                          [chunk |-> vs.chunks[At(found[i])].text,
                           metadata |-> vs.chunks[At(found[i])].metadata,
                           score |-> found[i].dist]]]

\* search whose except clause re-raises instead of returning []
search_reraise(vs, query, k, fault) ==
  IF ~vs.index.present THEN [raised |-> FALSE, results |-> << >>]
  ELSE IF Len(vs.chunks) = 0 THEN [raised |-> FALSE, results |-> << >>]
  ELSE IF fault # "none" THEN [raised |-> TRUE, results |-> << >>]
  ELSE LET found == IndexSearch(vs.index.vecs, encode(query), k)
           valid == SelectSeq(found, LAMBDA h : h.idx # -1 /\ 0 <= h.idx /\ h.idx < Len(vs.chunks))
       IN [raised |-> FALSE,
           results |-> [i \in 1..Len(valid) |->
                          [chunk |-> vs.chunks[valid[i].idx + 1].text,
                           metadata |-> vs.chunks[valid[i].idx + 1].metadata,
                           score |-> valid[i].dist]]]

\* search on store vs; fault = "encode" or "lookup" makes the query embedding
\* or the index lookup raise inside the try block
search(vs, query, k, fault) ==
  IF ~vs.index.present THEN [raised |-> FALSE, results |-> << >>]
  ELSE IF Len(vs.chunks) = 0 THEN [raised |-> FALSE, results |-> << >>]
  ELSE IF fault # "none" THEN [raised |-> FALSE, results |-> << >>]
  ELSE LET found == IndexSearch(vs.index.vecs, encode(query), k)
           valid == SelectSeq(found, LAMBDA h : h.idx # -1 /\ 0 <= h.idx /\ h.idx < Len(vs.chunks))
       IN [raised |-> FALSE,
           results |-> [i \in 1..Len(valid) |->
                          [chunk |-> vs.chunks[valid[i].idx + 1].text,
                           metadata |-> vs.chunks[valid[i].idx + 1].metadata,
                           score |-> valid[i].dist]]]

(***************************************************************************)
(* A direct caller of one VectorStore: any sequence of add_document and    *)
(* search calls on the store constructed at Init.                          *)
(*   hist[st]    what the caller of add_document on store st has seen: the *)
(*               last call and its outcome, the last two successful builds *)
(*   lastSearch  the last search call and what it returned                 *)
(***************************************************************************)
Sessions == {1, 2}

\* the passage lists a direct caller passes to add_document
ChunkLists == {<< >>, chunk_document(TextA), chunk_document(TextB)}

\* no text function has been called
NoOutput == [done |-> FALSE, value |-> << >>]

NoCall == [outcome |-> "none", chunks |-> << >>, ret |-> 0]

NoHist == [nOk |-> 0, last |-> NoCall, okBuild |-> << >>, prevOk |-> << >>]

NoSearch == [called |-> FALSE, st |-> 0, query |-> "", k |-> 0, fault |-> "none",
             hadIndex |-> FALSE, nChunks |-> 0, raised |-> FALSE, results |-> << >>]

\* what the caller of add_document saw: the call's outcome, and the builds
\* that succeeded so far (their number is counted up to 2)
Observe(h, chunks, r) ==
  LET outcome == IF r.raised THEN "failed" ELSE IF r.ret = 0 THEN "empty" ELSE "ok"
  IN [nOk |-> IF outcome = "ok" THEN Min(h.nOk + 1, 2) ELSE h.nOk,
      last |-> [outcome |-> outcome, chunks |-> chunks, ret |-> r.ret],
      okBuild |-> IF outcome = "ok" THEN chunks ELSE h.okBuild,
      prevOk |-> IF outcome = "ok" THEN h.okBuild ELSE h.prevOk]

\* what the caller of search saw
Searched(st, query, k, fault) ==
  LET r == search(stores[st], query, k, fault)
  IN [called |-> TRUE, st |-> st, query |-> query, k |-> k, fault |-> fault,
      hadIndex |-> stores[st].index.present, nChunks |-> Len(stores[st].chunks),
      raised |-> r.raised, results |-> r.results]

\* a handler slot: the handler's position, its local variables, the length of
\* the chat's file list when it began, the reply it is sending, and what it
\* saw of the store and of its chat when it searched
NoTask == [pc |-> "idle", file |-> "", queue |-> << >>, processed_files |-> 0,
           nfiles |-> 0, outcome |-> "none", changed |-> FALSE,
           query |-> "", results |-> << >>, references |-> << >>, context |-> << >>,
           reply |-> "none",
           seen |-> [paired |-> TRUE, own |-> << >>, built |-> FALSE]]

\* cl.user_session of a chat that has not started
NoSession == [started |-> FALSE, files |-> << >>, processed_files |-> 0, vector_store |-> 0,
              offered |-> FALSE, asked |-> 0, own |-> << >>, built |-> FALSE]

\* the handler slots of a chat: one for the upload handlers (start and
\* on_upload_more), one for the message handler
Slots == {"upload", "message"}

\* the slots an upload handler can run in: a callback of the upload_more
\* button can run while the loop of start is still at work
UploadSlots == {"upload", "upload_more"}

TaskIds == Sessions \X (Slots \cup UploadSlots)

InitStore ==
  /\ vector_store = 0
  /\ stores = [st \in Sessions |-> VectorStore]
  /\ hist = [st \in Sessions |-> NoHist]
  /\ lastSearch = NoSearch
  /\ session = [s \in Sessions |-> NoSession]
  /\ tasks = [t \in TaskIds |-> NoTask]
  /\ input = << >>
  /\ output = NoOutput

AddDocumentCall(st, chunks, fault) ==
  LET r == add_document(stores[st], chunks, fault)
  IN /\ fault = "encode" => Len(chunks) > 0
     /\ stores' = [stores EXCEPT ![st] = r.store]
     /\ hist' = [hist EXCEPT ![st] = Observe(hist[st], chunks, r)]
     /\ UNCHANGED <<vector_store, lastSearch, session, tasks, pure>>

SearchCall(st, query, k, fault) ==
  /\ lastSearch' = Searched(st, query, k, fault)
  /\ UNCHANGED <<vector_store, stores, hist, session, tasks, pure>>

NextStore ==
  \/ \E chunks \in ChunkLists, fault \in {"none", "encode"} : AddDocumentCall(1, chunks, fault)
  \/ \E query \in Queries, k \in 1..MaxK, fault \in {"none", "encode", "lookup"} :
        SearchCall(1, query, k, fault)

SpecStore == InitStore /\ [][NextStore]_vars

(***************************************************************************)
(* The application: chat sessions on one event loop.  A handler runs       *)
(* without interruption from one await of a message send or update, of the *)
(* file dialog or of the LLM to the next; process_document, chunk_document,*)
(* add_document and search are coroutines that never suspend.              *)
(*   vector_store   the module-level global of app.py (0 is None)          *)
(*   stores[s]      the VectorStore object constructed by start of chat s  *)
(*   session[s]     cl.user_session of chat s, with what the chat has      *)
(*                  handed to add_document so far (own, built)             *)
(*   tasks[s, slot] a handler slot of chat s                               *)
(* Every handler of a chat runs after the chat's start, which binds the    *)
(* global, so the "vector_store is None" branches of the handlers are      *)
(* never taken.                                                            *)
(***************************************************************************)
\* files a user may upload: two documents, a PDF without extractable text,
\* an unsupported format, a file whose extractor raises, and a text file
\* that is neither UTF-8 nor UTF-16 (cp1256 decodes any bytes)
Files == {"a.pdf", "b.docx", "scan.pdf", "notes.rtf", "broken.pdf", "binary.txt"}

ExtractionFails(file) == file \in {"notes.rtf", "broken.pdf", "binary.txt"}

process_document(file) ==
  CASE file = "a.pdf" -> TextA
    [] file = "b.docx" -> TextB
    [] file = "scan.pdf" -> TextBlank
    [] file = "notes.rtf" -> TextUnsupported
    [] file = "broken.pdf" -> TextProcessingError
    [] file = "binary.txt" -> TextUndecodable

\* file limit of process_uploaded_file
FileLimit == 5
\* max_files of the first file dialog
AskMaxFiles == 5
\* k of the search made by handle_user_message
SearchK == 3

FileLists(n) == UNION {[1..m -> Files] : m \in 0..n}

\* the files handed to the upload handlers of the chats in S so far
RECURSIVE Asked(_)
Asked(S) == IF S = {} THEN 0
            ELSE LET s == CHOOSE x \in S : TRUE IN session[s].asked + Asked(S \ {s})

\* the queries the users type
AppQueries == {"q5"}

\* process_uploaded_file up to its first await: the limit check
Enter(s, queue) ==
  IF queue = << >> THEN NoTask
  ELSE LET processed_files == session[s].processed_files
       IN [NoTask EXCEPT !.file = Head(queue), !.queue = Tail(queue),
                         !.processed_files = processed_files,
                         !.nfiles = Len(session[s].files),
                         !.pc = IF processed_files >= FileLimit THEN "u_return" ELSE "u_store",
                         !.outcome = IF processed_files >= FileLimit THEN "limit" ELSE "none"]

InitApp ==
  /\ vector_store = 0
  /\ stores = [st \in Sessions |-> VectorStore]
  /\ hist = [st \in Sessions |-> NoHist]
  /\ lastSearch = NoSearch
  /\ session = [s \in Sessions |-> NoSession]
  /\ tasks = [t \in TaskIds |-> NoTask]
  /\ input = << >>
  /\ output = NoOutput

\* on_chat_start up to the file dialog
start(s) ==
  /\ ~session[s].started
  /\ vector_store' = s
  /\ stores' = [stores EXCEPT ![s] = VectorStore]
  /\ session' = [session EXCEPT ![s] = [NoSession EXCEPT !.started = TRUE, !.vector_store = s]]
  /\ tasks' = [tasks EXCEPT ![<<s, "upload">>] = [NoTask EXCEPT !.pc = "ask_files"]]
  /\ UNCHANGED <<hist, lastSearch, pure>>

\* the upload_more action callback up to its file dialog; budget is the
\* number of files the users hand in altogether
on_upload_more(t, budget) ==
  /\ session[t[1]].started /\ session[t[1]].offered
  /\ Asked(Sessions) < budget
  /\ t[2] \in UploadSlots /\ tasks[t].pc = "idle"
  /\ tasks' = [tasks EXCEPT ![t] = [NoTask EXCEPT !.pc = "ask_more"]]
  /\ UNCHANGED <<vector_store, stores, hist, lastSearch, session, pure>>

\* the file dialog returns (no file on timeout); the handler calls
\* process_uploaded_file on the first file
AskAnswered(t, files, budget) ==
  /\ tasks[t].pc \in {"ask_files", "ask_more"}
  /\ Len(files) <= (IF tasks[t].pc = "ask_files" THEN AskMaxFiles ELSE 1)
  /\ Asked(Sessions) + Len(files) <= budget
  /\ session' = [session EXCEPT ![t[1]].asked = @ + Len(files)]
  /\ tasks' = [tasks EXCEPT ![t] = Enter(t[1], files)]
  /\ UNCHANGED <<vector_store, stores, hist, lastSearch, pure>>

\* process_uploaded_file, step 1: the file is recorded and counted
UploadStore(t) ==
  /\ tasks[t].pc = "u_store"
  /\ session' = [session EXCEPT
                   ![t[1]].files = Append(@, [name |-> tasks[t].file, path |-> tasks[t].file]),
                   ![t[1]].processed_files = tasks[t].processed_files + 1]
  /\ tasks' = [tasks EXCEPT ![t].pc = "u_extract"]
  /\ UNCHANGED <<vector_store, stores, hist, lastSearch, pure>>

\* a pipeline that hands the passages of a document without text to
\* add_document before it reports
UploadExtract_builds_empty(t) ==
  LET text == process_document(tasks[t].file)
      r == add_document(stores[vector_store], chunk_document(text), "none")
  IN /\ tasks[t].pc = "u_extract"
     /\ tasks' = [tasks EXCEPT ![t] =
                    IF IsBlank(text) THEN [@ EXCEPT !.pc = "u_return", !.outcome = "notext"]
                    ELSE [@ EXCEPT !.pc = "u_build"]]
     /\ stores' = [stores EXCEPT ![vector_store] = IF IsBlank(text) THEN r.store ELSE @]
     /\ UNCHANGED <<vector_store, hist, lastSearch, session, pure>>

\* step 2: text extraction and the empty-text check
UploadExtract(t) ==
  /\ tasks[t].pc = "u_extract"
  /\ tasks' = [tasks EXCEPT ![t] =
                 IF IsBlank(process_document(tasks[t].file))
                   THEN [@ EXCEPT !.pc = "u_return", !.outcome = "notext"]
                 ELSE [@ EXCEPT !.pc = "u_build"]]
  /\ UNCHANGED <<vector_store, stores, hist, lastSearch, session, pure>>

\* step 3: chunk_document and add_document on the global store; an exception
\* of add_document is caught by the handler's except clause
UploadBuild(t, fault) ==
  LET chunks == chunk_document(process_document(tasks[t].file))
      r == add_document(stores[vector_store], chunks, fault)
  IN /\ tasks[t].pc = "u_build"
     /\ IF Len(chunks) = 0
          THEN /\ tasks' = [tasks EXCEPT ![t].pc = "u_return", ![t].outcome = "nochunks"]
               /\ UNCHANGED <<stores, session, pure>>
        ELSE /\ stores' = [stores EXCEPT ![vector_store] = r.store]
             /\ tasks' = [tasks EXCEPT ![t] =
                            IF r.raised
                              THEN [@ EXCEPT !.pc = "u_return", !.outcome = "error",
                                             !.changed = (r.store # stores[vector_store])]
                            ELSE [@ EXCEPT !.pc = "u_starters",
                                           !.changed = (r.store # stores[vector_store])]]
             /\ session' = [session EXCEPT
                              ![t[1]].own = chunks,
                              ![t[1]].built = @ \/ ~r.raised,
                              ![t[1]].vector_store = IF r.raised THEN @ ELSE vector_store]
     /\ UNCHANGED <<vector_store, hist, lastSearch, pure>>

\* step 4: starter questions, the preview and the offer to upload more
UploadStarters(t) ==
  /\ tasks[t].pc = "u_starters"
  /\ session' = [session EXCEPT ![t[1]].offered = @ \/ session[t[1]].processed_files < FileLimit]
  /\ tasks' = [tasks EXCEPT ![t].pc = "u_return", ![t].outcome = "ok"]
  /\ UNCHANGED <<vector_store, stores, hist, lastSearch, pure>>

\* process_uploaded_file returns after its last message; the caller goes on
\* to the next file of the dialog, if any
UploadReturn(t) ==
  /\ tasks[t].pc = "u_return"
  /\ tasks' = [tasks EXCEPT ![t] = Enter(t[1], tasks[t].queue)]
  /\ UNCHANGED <<vector_store, stores, hist, lastSearch, session, pure>>

\* the state of the searched store and of chat s when its handler looks at
\* the store: whether index and passages belong together, and what the chat
\* itself has handed to add_document
Seen(s) ==
  [paired |-> stores[vector_store].index.vecs = Vectors(stores[vector_store].chunks),
   own |-> session[s].own, built |-> session[s].built]

\* labels numbered against the results taken from the last to the first
References_reversed(results) ==
  [i \in 1..Len(results) |->
     [n |-> i, page |-> results[Len(results) + 1 - i].metadata.page,
      line |-> results[Len(results) + 1 - i].metadata.line]]

\* reference_list of handle_user_message: label i+1 with the page and the
\* line of relevant_chunks[i]
References(results) ==
  [i \in 1..Len(results) |->
     [n |-> i, page |-> results[i].metadata.page, line |-> results[i].metadata.line]]

\* context_chunks of query_document: label i+1 with the page and the line of
\* context[i], followed by its text
context_chunks(context) ==
  [i \in 1..Len(context) |->
     [n |-> i, page |-> context[i].metadata.page, line |-> context[i].metadata.line,
      chunk_text |-> context[i].chunk]]

\* a handler that takes the presence of passages for the presence of an index
handle_user_message_checks_chunks(t, query) ==
  /\ session[t[1]].started
  /\ t[2] = "message" /\ tasks[t].pc = "idle"
  /\ tasks' = [tasks EXCEPT ![t] =
                 IF vector_store = 0 \/ stores[vector_store].chunks = << >>
                   THEN [NoTask EXCEPT !.pc = "m_return", !.reply = "upload_first",
                                       !.query = query, !.seen = Seen(t[1])]
                 ELSE [NoTask EXCEPT !.pc = "m_search", !.query = query]]
  /\ UNCHANGED <<vector_store, stores, hist, lastSearch, session, pure>>

\* handle_user_message up to its first message: the index-unavailable check
handle_user_message(t, query) ==
  /\ session[t[1]].started
  /\ t[2] = "message" /\ tasks[t].pc = "idle"
  /\ tasks' = [tasks EXCEPT ![t] =
                 IF vector_store = 0 \/ ~stores[vector_store].index.present
                   THEN [NoTask EXCEPT !.pc = "m_return", !.reply = "upload_first",
                                       !.query = query, !.seen = Seen(t[1])]
                 ELSE [NoTask EXCEPT !.pc = "m_search", !.query = query]]
  /\ UNCHANGED <<vector_store, stores, hist, lastSearch, session, pure>>

\* a handler that asks the LLM whatever the search has returned
MessageSearch_always_asks(t, fault) ==
  LET r == search(stores[vector_store], tasks[t].query, SearchK, fault)
  IN /\ tasks[t].pc = "m_search"
     /\ tasks' = [tasks EXCEPT ![t] =
                    [@ EXCEPT !.pc = "m_llm", !.results = r.results,
                              !.references = References(r.results),
                              !.context = context_chunks(r.results), !.seen = Seen(t[1])]]
     /\ UNCHANGED <<vector_store, stores, hist, lastSearch, session, pure>>

\* the search on the global store; without results the no-information reply,
\* otherwise the reference list and the call of the LLM, query_document,
\* which labels its context before it sends the prompt
MessageSearch(t, fault) ==
  LET r == search(stores[vector_store], tasks[t].query, SearchK, fault)
  IN /\ tasks[t].pc = "m_search"
     /\ tasks' = [tasks EXCEPT ![t] =
                    IF r.results = << >>
                      THEN [@ EXCEPT !.pc = "m_return", !.reply = "no_info", !.seen = Seen(t[1])]
                    ELSE [@ EXCEPT !.pc = "m_llm", !.results = r.results,
                                   !.references = References(r.results),
                                   !.context = context_chunks(r.results),
                                   !.seen = Seen(t[1])]]
     /\ UNCHANGED <<vector_store, stores, hist, lastSearch, session, pure>>

\* the LLM has answered: the response and the sources are sent
MessageAnswer(t) ==
  /\ tasks[t].pc = "m_llm"
  /\ tasks' = [tasks EXCEPT ![t].pc = "m_return", ![t].reply = "answer"]
  /\ UNCHANGED <<vector_store, stores, hist, lastSearch, session, pure>>

\* the last message of handle_user_message is out and the handler returns
MessageReturn(t) ==
  /\ tasks[t].pc = "m_return"
  /\ tasks' = [tasks EXCEPT ![t] = NoTask]
  /\ UNCHANGED <<vector_store, stores, hist, lastSearch, session, pure>>

\* the steps the handlers of the chats in S can take
Handlers(S) ==
  \/ \E s \in S : start(s)
  \/ \E t \in S \X Slots : on_upload_more(t, MaxUploads)
  \/ \E t \in S \X Slots, files \in FileLists(MaxUploads) : AskAnswered(t, files, MaxUploads)
  \/ \E t \in S \X Slots : UploadStore(t)
  \/ \E t \in S \X Slots : UploadExtract(t)
  \/ \E t \in S \X Slots, fault \in {"none", "encode"} : UploadBuild(t, fault)
  \/ \E t \in S \X Slots : UploadStarters(t)
  \/ \E t \in S \X Slots : UploadReturn(t)
  \/ \E t \in S \X Slots, query \in AppQueries : handle_user_message(t, query)
  \/ \E t \in S \X Slots, fault \in {"none", "encode", "lookup"} : MessageSearch(t, fault)
  \/ \E t \in S \X Slots : MessageAnswer(t)
  \/ \E t \in S \X Slots : MessageReturn(t)

\* one chat
NextChat == Handlers({1})

SpecChat == InitApp /\ [][NextChat]_vars

\* two chats in one process
NextChats == Handlers(Sessions)

SpecChats == InitApp /\ [][NextChats]_vars

(***************************************************************************)
(* The upload handlers of one chat at the file limit: the loop of start    *)
(* and a callback of the upload_more button, which the user can press as   *)
(* soon as the first document is in.  Every file is the same document.     *)
(***************************************************************************)
LimitFileLists == {[i \in 1..m |-> "a.pdf"] : m \in 0..LimitUploads}

NextLimit ==
  \/ start(1)
  \/ \E t \in {1} \X UploadSlots : on_upload_more(t, LimitUploads)
  \/ \E t \in {1} \X UploadSlots, files \in LimitFileLists : AskAnswered(t, files, LimitUploads)
  \/ \E t \in {1} \X UploadSlots : UploadStore(t)
  \/ \E t \in {1} \X UploadSlots : UploadExtract(t)
  \/ \E t \in {1} \X UploadSlots : UploadBuild(t, "none")
  \/ \E t \in {1} \X UploadSlots : UploadStarters(t)
  \/ \E t \in {1} \X UploadSlots : UploadReturn(t)

SpecLimit == InitApp /\ [][NextLimit]_vars

(***************************************************************************)
(* chunk_document called on its own.  The argument is either the           *)
(* characters of a short text or, for pages longer than a chunk, the       *)
(* pages with the pieces the splitter cuts from each.                      *)
(***************************************************************************)
\* "Line one.\n\nLine two.\n\n\nLine three.", a letter for each line
ScenarioText == <<"x", "\n", "\n", "x", "\n", "\n", "\n", "x">>

CharTexts == UNION {[1..n -> Chars] : n \in 0..MaxTextLen} \cup {ScenarioText}

PagePieces == UNION {[1..m -> {Piece("p", 1), Piece("q", 1)}] : m \in 0..MaxPieces}

PagedTexts == UNION {[1..n -> PagePieces] : n \in 1..MaxSegments}

InitChunk ==
  /\ vector_store = 0
  /\ stores = [st \in Sessions |-> VectorStore]
  /\ hist = [st \in Sessions |-> NoHist]
  /\ lastSearch = NoSearch
  /\ session = [s \in Sessions |-> NoSession]
  /\ tasks = [t \in TaskIds |-> NoTask]
  /\ input \in [kind : {"text"}, text : CharTexts] \cup [kind : {"pages"}, text : PagedTexts]
  /\ output = NoOutput

\* the pages and pieces of the argument
Segments(in) == IF in.kind = "text" THEN Segmentation(in.text) ELSE in.text

\* chunk_document(text) returns
ChunkText ==
  /\ input.kind = "text" /\ ~output.done
  /\ output' = [done |-> TRUE, value |-> chunk_document_text(input.text)]
  /\ UNCHANGED <<vector_store, stores, hist, lastSearch, session, tasks, input>>

\* chunk_document returns for a text of long pages
ChunkPages ==
  /\ input.kind = "pages" /\ ~output.done
  /\ output' = [done |-> TRUE, value |-> chunk_document(input.text)]
  /\ UNCHANGED <<vector_store, stores, hist, lastSearch, session, tasks, input>>

NextChunk == ChunkText \/ ChunkPages

SpecChunk == InitChunk /\ [][NextChunk]_vars

(***************************************************************************)
(* fix_arabic_text called on its own                                       *)
(***************************************************************************)
FixTexts == UNION {[1..n -> FixChars] : n \in 0..MaxFixLen}

InitFix ==
  /\ vector_store = 0
  /\ stores = [st \in Sessions |-> VectorStore]
  /\ hist = [st \in Sessions |-> NoHist]
  /\ lastSearch = NoSearch
  /\ session = [s \in Sessions |-> NoSession]
  /\ tasks = [t \in TaskIds |-> NoTask]
  /\ input \in FixTexts
  /\ output = NoOutput

\* fix_arabic_text(text) returns
FixCall ==
  /\ ~output.done
  /\ output' = [done |-> TRUE, value |-> fix_arabic_text(input)]
  /\ UNCHANGED <<vector_store, stores, hist, lastSearch, session, tasks, input>>

NextFix == FixCall

SpecFix == InitFix /\ [][NextFix]_vars

(***************************************************************************)
(* Properties of the store under a direct caller (SpecStore)               *)
(***************************************************************************)
Results(st, query, k) == search(stores[st], query, k, "none").results

IsPassageOf(r, chunks) ==
  \E j \in 1..Len(chunks) : chunks[j].text = r.chunk /\ chunks[j].metadata = r.metadata

AllResults(st, P(_, _)) ==
  \A query \in Queries, k \in 1..MaxK :
    \A i \in 1..Len(Results(st, query, k)) : P(query, Results(st, query, k)[i])

NoResults(st) == \A query \in Queries, k \in 1..MaxK : Results(st, query, k) = << >>

\* C1: after add_document failed in the embedding call, with an earlier
\* successful build, either the previous build's passages and index are both
\* intact or every search returns the empty sequence; and no result carries a
\* score that was computed from another passage's vector.
C1_FailedBuildKeepsPairOrNothing ==
  \A st \in Sessions :
    (hist[st].last.outcome = "failed" /\ hist[st].nOk >= 1) =>
      /\ \/ /\ stores[st].chunks = hist[st].okBuild
            /\ stores[st].index = IndexFlatL2(Vectors(hist[st].okBuild))
         \/ NoResults(st)
      /\ AllResults(st, LAMBDA query, r : r.score = Dist(encode(query), encode(r.chunk)))

\* C2: once a build has succeeded, the index holds as many vectors as there
\* are stored passages, whatever add_document and search calls follow.
C2_IndexSizeEqualsPassages ==
  \A st \in Sessions :
    hist[st].nOk >= 1 => Len(stores[st].index.vecs) = Len(stores[st].chunks)

\* C3: add_document with an empty passage list returns 0 and leaves the store
\* without an index, and search returns the empty sequence.
C3_EmptyBuildLeavesNoIndex ==
  \A st \in Sessions :
    hist[st].last.outcome = "empty" =>
      /\ hist[st].last.ret = 0
      /\ ~stores[st].index.present
      /\ NoResults(st)

\* C4: after two successful builds, of A and then of B, the store holds
\* exactly B's passages and an index over exactly B's vectors; every search
\* result is a passage of B and, B being another document than A, none is a
\* passage of A.
C4_SecondBuildReplacesFirst ==
  \A st \in Sessions :
    (hist[st].nOk = 2 /\ hist[st].last.outcome = "ok") =>
      /\ stores[st].chunks = hist[st].last.chunks
      /\ stores[st].index = IndexFlatL2(Vectors(hist[st].last.chunks))
      /\ AllResults(st, LAMBDA query, r : IsPassageOf(r, hist[st].last.chunks))
      /\ hist[st].prevOk # hist[st].last.chunks =>
            AllResults(st, LAMBDA query, r : ~IsPassageOf(r, hist[st].prevOk))

C4_Witness ==
  /\ hist[1].nOk = 2 /\ hist[1].last.outcome = "ok"
  /\ hist[1].prevOk = chunk_document(TextA) /\ hist[1].okBuild = chunk_document(TextB)
  /\ lastSearch.called /\ lastSearch.results # << >>
  /\ lastSearch.results = Results(1, lastSearch.query, lastSearch.k)

\* C5: when the last build indexed m passages, search(q, k) returns exactly
\* min(k, m) results for every q and every k >= 1, with non-decreasing scores.
C5_SearchBound ==
  \A st \in Sessions :
    hist[st].last.outcome \in {"ok", "empty"} =>
      \A query \in Queries, k \in 1..MaxK :
        LET r == Results(st, query, k)
        IN /\ Len(r) = Min(k, Len(hist[st].last.chunks))
           /\ \A i \in 1..(Len(r) - 1) : r[i].score <= r[i + 1].score

C5_Witness ==
  /\ hist[1].last.outcome = "ok" /\ Len(hist[1].last.chunks) = 3
  /\ lastSearch.called /\ lastSearch.k = MaxK /\ Len(lastSearch.results) = 3
  /\ lastSearch.results = Results(1, lastSearch.query, lastSearch.k)
  /\ lastSearch.results[2].score < lastSearch.results[3].score

\* C6: search never raises; it returns the empty sequence when there is no
\* index, when the stored passage list is empty, and when the query embedding
\* or the index lookup fails.
C6_SearchNeverRaises ==
  /\ ~lastSearch.raised
  /\ (lastSearch.called /\ (~lastSearch.hadIndex \/ lastSearch.nChunks = 0
                            \/ lastSearch.fault # "none"))
       => lastSearch.results = << >>

C6_Witness ==
  /\ lastSearch.called /\ lastSearch.hadIndex /\ lastSearch.nChunks > 0
  /\ lastSearch.fault = "lookup" /\ lastSearch.results = << >>

(***************************************************************************)
(* Properties of the application (SpecChat: one chat, SpecChats: two)      *)
(***************************************************************************)
HasSearched(t) ==
  \/ tasks[t].pc = "m_llm"
  \/ tasks[t].pc = "m_return" /\ tasks[t].reply \in {"no_info", "answer"}

\* C7: every search of a message handler observes a complete (passages,
\* index) pair: the index holds exactly the vectors of the stored passages.
C7_SearchSeesCompletePair ==
  \A t \in TaskIds : HasSearched(t) => tasks[t].seen.paired

\* C8: a chat's queries are answered only from the passages of the chat's own
\* latest build, and a chat that has built an index is never told to upload a
\* document first, whatever the other chat starts or uploads.
C8_ChatsAreIsolated ==
  \A t \in TaskIds :
    /\ (tasks[t].pc = "m_return" /\ tasks[t].reply = "upload_first") => ~tasks[t].seen.built
    /\ HasSearched(t) =>
         \A i \in 1..Len(tasks[t].results) : IsPassageOf(tasks[t].results[i], tasks[t].seen.own)

\* C9: a file whose text extraction fails is treated as an empty document:
\* chunk_document and add_document are not called for it and the stored
\* passages and index stay as they were.
C9_ExtractionFailureIsEmptyDocument ==
  \A t \in TaskIds :
    (ExtractionFails(tasks[t].file) /\ tasks[t].pc \in {"u_starters", "u_return"}) =>
      /\ tasks[t].outcome \in {"notext", "limit"}
      /\ ~tasks[t].changed

\* C10: when add_document fails in the embedding call, the chat's
\* processed_files count and files list are the same after the upload as
\* before it.
C10_FailedBuildIsNotCounted ==
  \A t \in TaskIds :
    (tasks[t].pc = "u_return" /\ tasks[t].outcome = "error") =>
      /\ session[t[1]].processed_files = tasks[t].processed_files
      /\ Len(session[t[1]].files) = tasks[t].nfiles

\* the results every query gets from the store a handler searches
AllSearches(sts, vs) ==
  [query \in Queries, k \in 1..MaxK |-> search(sts[vs], query, k, "none").results]

\* handler t ends the processing of a document without text or passages
EndsEmpty(t) ==
  /\ tasks[t].pc \in {"u_extract", "u_build"}
  /\ tasks'[t].pc = "u_return"
  /\ tasks'[t].outcome \in {"notext", "nochunks"}

\* C11: when an uploaded document yields empty text or zero passages, its
\* processing ends with a report to the user, the active passages and index
\* are unchanged, and every query returns the same search results after the
\* upload as before it; a document without text never reaches add_document.
C11_EmptyDocumentLeavesStore ==
  /\ [][\A t \in TaskIds :
          EndsEmpty(t) =>
            /\ stores' = stores /\ vector_store' = vector_store
            /\ AllSearches(stores', vector_store') = AllSearches(stores, vector_store)]_vars
  /\ [](\A t \in TaskIds :
          (tasks[t].pc \in {"u_build", "u_starters", "u_return"}
             /\ IsBlank(process_document(tasks[t].file))) =>
            /\ tasks[t].pc = "u_return"
            /\ tasks[t].outcome \in {"notext", "limit"}
            /\ ~tasks[t].changed)

\* a document without text has been reported while an index of an earlier
\* document is active
C11_Witness ==
  \E t \in TaskIds :
    /\ tasks[t].pc = "u_return" /\ tasks[t].outcome = "notext"
    /\ stores[vector_store].index.present
    /\ stores[vector_store].chunks # << >>

\* C12: a query that arrives when no build of the chat has succeeded so far
\* gets the "upload a document first" reply and its handler goes straight to
\* its return: neither search nor the LLM is invoked for it.
C12_NoBuildMeansUploadFirst ==
  /\ [][\A t \in TaskIds :
          (t[2] = "message" /\ tasks[t].pc = "idle" /\ tasks'[t].pc # "idle"
             /\ ~session[t[1]].built) =>
            /\ tasks'[t].pc = "m_return"
            /\ tasks'[t].reply = "upload_first"]_vars
  /\ [](\A t \in TaskIds :
          (tasks[t].pc = "m_search" \/ HasSearched(t)) => session[t[1]].built)

\* a query has been turned away after a build was attempted and failed
C12_Witness ==
  \E t \in TaskIds :
    /\ tasks[t].pc = "m_return" /\ tasks[t].reply = "upload_first"
    /\ session[t[1]].own # << >> /\ ~session[t[1]].built

\* C13: when search returns no result for a query, the handler tells the user
\* that no relevant information was found and does not call the LLM: the
\* LLM is called, and an answer sent, only with at least one result.
C13_NoResultsNoLLM ==
  /\ [][\A t \in TaskIds :
          (tasks[t].pc = "m_search" /\ tasks'[t].pc # "m_search"
             /\ tasks'[t].results = << >>) =>
            /\ tasks'[t].pc = "m_return"
            /\ tasks'[t].reply = "no_info"]_vars
  /\ [](\A t \in TaskIds :
          (tasks[t].pc = "m_llm" \/ tasks[t].reply = "answer") =>
            /\ tasks[t].results # << >>
            /\ tasks[t].context # << >>)

\* a search on a store with passages and an index has returned nothing
C13_Witness ==
  \E t \in TaskIds :
    /\ tasks[t].pc = "m_return" /\ tasks[t].reply = "no_info"
    /\ stores[vector_store].index.present
    /\ stores[vector_store].chunks # << >>

\* C14: for a query with n >= 1 results there are exactly n labels, the i-th
\* numbered i and carrying the page and the line of the i-th result in search
\* order, in the reference list shown to the user and in the context given
\* to the LLM; the results keep their order until the answer is sent.
C14_LabelsFollowSearchOrder ==
  /\ [](\A t \in TaskIds :
          (tasks[t].pc = "m_llm" \/ tasks[t].reply = "answer") =>
            LET n == Len(tasks[t].results) IN
              /\ Len(tasks[t].references) = n /\ Len(tasks[t].context) = n
              /\ \A i \in 1..n :
                   /\ tasks[t].references[i].n = i
                   /\ tasks[t].references[i].page = tasks[t].results[i].metadata.page
                   /\ tasks[t].references[i].line = tasks[t].results[i].metadata.line
                   /\ tasks[t].context[i].n = i
                   /\ tasks[t].context[i].page = tasks[t].results[i].metadata.page
                   /\ tasks[t].context[i].line = tasks[t].results[i].metadata.line
                   /\ tasks[t].context[i].chunk_text = tasks[t].results[i].chunk)
  /\ [][\A t \in TaskIds :
          (tasks[t].pc = "m_llm" /\ tasks'[t].pc = "m_return") =>
            /\ tasks'[t].results = tasks[t].results
            /\ tasks'[t].references = tasks[t].references
            /\ tasks'[t].context = tasks[t].context]_vars

\* an answer has been sent for a query with results of different pages
C14_Witness ==
  \E t \in TaskIds :
    /\ tasks[t].reply = "answer"
    /\ Len(tasks[t].results) >= 2
    /\ tasks[t].results[1].metadata.page # tasks[t].results[2].metadata.page

\* what the pages from p on emit: the pieces in page order and, inside a
\* page, in split order, each with the number of its page
RECURSIVE Emitted(_, _)
Emitted(text, p) ==
  IF p > Len(text) THEN << >>
  ELSE [k \in 1..Len(text[p]) |-> [text |-> text[p][k].text, page |-> p]] \o Emitted(text, p + 1)

\* C15: the n passages chunk_document returns have the ids 0..n-1 in
\* emission order, the emission follows the page order and inside a page the
\* split order, so the pages never decrease along the ids, and skipped empty
\* pages leave no gap in the ids.
C15_IdsDenseInEmissionOrder ==
  output.done =>
    LET out == output.value
        n == Len(out)
    IN /\ \A i \in 1..n : out[i].id = i - 1 /\ out[i].metadata.chunk_id = i - 1
       /\ \A i \in 1..(n - 1) : out[i].metadata.page <= out[i + 1].metadata.page
       /\ [i \in 1..n |-> [text |-> out[i].text, page |-> out[i].metadata.page]]
            = Emitted(Segments(input), 1)

\* passages of a first and a third page, two of them from one page, with an
\* empty page skipped between
C15_Witness ==
  /\ output.done /\ Len(output.value) >= 3
  /\ \E i \in 1..(Len(output.value) - 1) :
       /\ output.value[i].metadata.page = 1
       /\ output.value[i + 1].metadata.page = 3
  /\ \E i \in 1..(Len(output.value) - 1) :
       output.value[i].metadata.page = output.value[i + 1].metadata.page

\* C16: when form feeds separate the text into s segments, 2 <= s <= 500,
\* chunk_document splits at the form feeds and every passage cut from the
\* j-th segment carries page j.
C16_FormFeedsArePages ==
  (output.done /\ input.kind = "text" /\ \E i \in 1..Len(input.text) : input.text[i] = "\f") =>
    LET segments == split(input.text, "\f")
        out == output.value
    IN (Len(segments) >= 2 /\ Len(segments) <= PageLimit) =>
         /\ \A i \in 1..Len(out) :
              /\ out[i].metadata.page \in 1..Len(segments)
              /\ out[i].text = strip(segments[out[i].metadata.page])
         /\ {out[i].metadata.page : i \in 1..Len(out)}
              = {j \in 1..Len(segments) : strip(segments[j]) # << >>}

\* the text has no form feed, is not blank and is shorter than a chunk
ShortPlainText ==
  /\ input.kind = "text"
  /\ \A i \in 1..Len(input.text) : input.text[i] # "\f"
  /\ strip(input.text) # << >>
  /\ Len(input.text) < chunk_size

\* C17: a text without form feed that is shorter than the chunk
\* size is chunked into exactly one passage, with page 1.
C17_ShortTextIsOnePassage ==
  (output.done /\ ShortPlainText) =>
    Len(output.value) = 1 /\ output.value[1].metadata.page = 1

\* C18: normalization is idempotent: fix_arabic_text applied to a text it
\* has returned returns that text again.
C18_NormalizationIsIdempotent ==
  output.done => fix_arabic_text(output.value) = output.value

\* a text with a run of spaces, a run of newlines or a letter that is
\* replaced has been normalized to a different, non-empty text
C18_Witness ==
  /\ output.done /\ output.value # << >> /\ output.value # input
  /\ \/ \E i \in 1..(Len(input) - 1) : input[i] = " " /\ input[i + 1] = " "
     \/ \E i \in 1..(Len(input) - 2) :
          input[i] = "\n" /\ input[i + 1] = "\n" /\ input[i + 2] = "\n"
     \/ \E i \in 1..Len(input) : input[i] = "lam_alef"

\* C19: under any interleaving of the upload handlers of a chat the file
\* limit holds: processed_files never exceeds 5 and at most 5 files get past
\* the limit check and are recorded, extracted and indexed.
C19_FileLimitHolds ==
  \A s \in Sessions :
    /\ session[s].processed_files <= FileLimit
    /\ Len(session[s].files) <= FileLimit

====
